---- MODULE Spec2Model ----
(***************************************************************************)
(* Breakout for the GameTank: the per-frame simulation of breakout.cpp     *)
(* (paddle, ball, bricks, score and lives) as a state machine.  One step   *)
(* of the machine is one pass of the main loop's simulation part:          *)
(* read_input() followed by update_game().  SpecLoop runs main()'s frame   *)
(* loop statement by statement against the vsync and blit interrupts,      *)
(* SpecChase plays a long rally in which no ball is lost, and SpecPaddle   *)
(* applies update_paddle to arbitrary button masks.                        *)
(***************************************************************************)
EXTENDS Integers, FiniteSets, Sequences, TLC

\* ------------------------------------------------------------------------
\* Program constants (breakout.cpp, gametank.h)
\* ------------------------------------------------------------------------
PADDLE_WIDTH == 24
PADDLE_HEIGHT == 4
PADDLE_Y == 115
PADDLE_SPEED == 2
BALL_SIZE == 3
BALL_SPEED_X == 2
BALL_SPEED_Y == 2
BRICK_WIDTH == 15
BRICK_HEIGHT == 6
BRICK_ROWS == 6
BRICK_COLS == 8
BRICK_START_X == 4
BRICK_START_Y == 10
BRICK_SPACING_X == 16
BRICK_SPACING_Y == 7
TOTAL_BRICKS == BRICK_ROWS * BRICK_COLS
SCREEN_WIDTH == 128
SCREEN_HEIGHT == 128
BTN_RIGHT == 1
BTN_LEFT == 2
BTN_DOWN == 4
BTN_A == 16
DMA_ENABLE == 1
VID_OUT_PAGE2 == 2
NOTILE == 16
BLIT_IRQ == 64
VRAMBANK2 == 8
CLIP_X == 16
CLIP_Y == 32
TOP_BOUND == 8
INIT_LIVES == 3

\* ------------------------------------------------------------------------
\* Bounds of the exploration (not program constants)
\* ------------------------------------------------------------------------
\* frames are played while fewer than MaxScore bricks have been destroyed
MaxScore == 2
\* frames are played while fewer than MaxLost balls have been lost
MaxLost == 2
\* the button sample may differ from the previous sample at most this often
MaxInputChanges == 2
\* in the frame loop the launch button is tapped until this many balls are lost
MaxLoopLost == 3

VARIABLES paddle_x, ball_x, ball_y, ball_vx, ball_vy, ball_state,
          input_buffer, prev_input, score, lives, bricks_left, bricks,
          changes, hold_launches,
          did_vsync, bank_mirror, dma_mirror, frame_count,
          pc, draw_todo, iter_calls, nmi_seen

\* changes and hold_launches are history variables: the number of frames
\* whose sample differed from the previous one, and the number of launches
\* since the launch button was last seen released.
\* pc is main()'s position in the frame loop and draw_todo the number of
\* draw_rect calls that draw_game still has to make.  iter_calls and nmi_seen
\* are history variables: the calls main() has completed in the current
\* iteration, and whether nmi_handler has run since wait_vsync last returned.
game_vars == <<paddle_x, ball_x, ball_y, ball_vx, ball_vy, ball_state,
               input_buffer, prev_input, score, lives, bricks_left, bricks>>

loop_vars == <<did_vsync, bank_mirror, dma_mirror, frame_count,
               pc, draw_todo, iter_calls, nmi_seen>>

vars == <<paddle_x, ball_x, ball_y, ball_vx, ball_vy, ball_state,
          input_buffer, prev_input, score, lives, bricks_left, bricks,
          changes, hold_launches,
          did_vsync, bank_mirror, dma_mirror, frame_count,
          pc, draw_todo, iter_calls, nmi_seen>>

\* ------------------------------------------------------------------------
\* Machine arithmetic
\* ------------------------------------------------------------------------
\* value stored into a uint8_t
U8(n) == n % 256

\* value stored into an int8_t
S8(n) == ((n + 128) % 256) - 128

\* value stored into a uint16_t
U16(n) == n % 65536

\* (mask & btn) != 0 for a single-bit button mask btn
Held(mask, btn) == (mask \div btn) % 2 = 1

\* ------------------------------------------------------------------------
\* The globals of breakout.cpp as one record
\* ------------------------------------------------------------------------
G ==
  [paddle_x |-> paddle_x, ball_x |-> ball_x, ball_y |-> ball_y,
   ball_vx |-> ball_vx, ball_vy |-> ball_vy, ball_state |-> ball_state,
   input_buffer |-> input_buffer, prev_input |-> prev_input,
   score |-> score, lives |-> lives, bricks_left |-> bricks_left,
   bricks |-> bricks]

\* init_bricks: position, colour and active flag of brick idx
init_brick(idx) ==
  [x |-> U8(((idx % 8) * 16) + BRICK_START_X),
   y |-> U8(((idx \div 8) * 7) + BRICK_START_Y),
   color |-> U8((idx \div 8) + 1),
   active |-> 1]

\* init_bricks: the brick array after the loop
init_bricks == [idx \in 0..(TOTAL_BRICKS - 1) |-> init_brick(idx)]

\* init_game: the globals after initialisation
init_game ==
  [paddle_x |-> (SCREEN_WIDTH - PADDLE_WIDTH) \div 2,
   ball_x |-> (SCREEN_WIDTH - BALL_SIZE) \div 2,
   ball_y |-> PADDLE_Y - BALL_SIZE - 1,
   ball_vx |-> 0, ball_vy |-> 0, ball_state |-> 0,
   input_buffer |-> 0, prev_input |-> 0,
   score |-> 0, lives |-> INIT_LIVES,
   bricks_left |-> TOTAL_BRICKS,
   bricks |-> init_bricks]

\* read_input: pad is the value read from GAMEPAD1 (buttons are active-low)
read_input(g, pad) ==
  [g EXCEPT !.prev_input = g.input_buffer,
            !.input_buffer = 255 - pad]

\* update_paddle without the test of the right stop
update_paddle_no_stop(g) ==
  LET new_x == U8(g.paddle_x + PADDLE_SPEED)
      r == IF Held(g.input_buffer, BTN_RIGHT) THEN new_x ELSE g.paddle_x
      l == IF Held(g.input_buffer, BTN_LEFT) /\ r >= PADDLE_SPEED
           THEN U8(r - PADDLE_SPEED) ELSE r
  IN [g EXCEPT !.paddle_x = l]

\* update_paddle whose LEFT branch also answers to the DOWN button
update_paddle_down_moves(g) ==
  LET new_x == U8(g.paddle_x + PADDLE_SPEED)
      r == IF Held(g.input_buffer, BTN_RIGHT)
              /\ new_x < SCREEN_WIDTH - PADDLE_WIDTH
           THEN new_x ELSE g.paddle_x
      l == IF /\ Held(g.input_buffer, BTN_LEFT)
                   \/ Held(g.input_buffer, BTN_DOWN)
              /\ r >= PADDLE_SPEED
           THEN U8(r - PADDLE_SPEED) ELSE r
  IN [g EXCEPT !.paddle_x = l]

\* update_paddle with the LEFT branch as the else of the RIGHT branch
update_paddle_else_if(g) ==
  LET new_x == U8(g.paddle_x + PADDLE_SPEED)
  IN IF Held(g.input_buffer, BTN_RIGHT)
     THEN [g EXCEPT !.paddle_x =
              IF new_x < SCREEN_WIDTH - PADDLE_WIDTH THEN new_x ELSE @]
     ELSE IF Held(g.input_buffer, BTN_LEFT) /\ g.paddle_x >= PADDLE_SPEED
     THEN [g EXCEPT !.paddle_x = U8(g.paddle_x - PADDLE_SPEED)]
     ELSE g

\* update_paddle: RIGHT first, then LEFT on the already updated position
update_paddle(g) ==
  LET new_x == U8(g.paddle_x + PADDLE_SPEED)
      r == IF Held(g.input_buffer, BTN_RIGHT)
              /\ new_x < SCREEN_WIDTH - PADDLE_WIDTH
           THEN new_x ELSE g.paddle_x
      l == IF Held(g.input_buffer, BTN_LEFT) /\ r >= PADDLE_SPEED
           THEN U8(r - PADDLE_SPEED) ELSE r
  IN [g EXCEPT !.paddle_x = l]

\* ball_on_paddle that launches while the button is down, edge or not
ball_on_paddle_level(g) ==
  LET f == [g EXCEPT !.ball_x =
                 U8(g.paddle_x + ((PADDLE_WIDTH - BALL_SIZE) \div 2))]
  IN IF Held(g.input_buffer, BTN_A)
     THEN [f EXCEPT !.ball_state = 1,
                    !.ball_vx = BALL_SPEED_X,
                    !.ball_vy = S8(-BALL_SPEED_Y)]
     ELSE f

\* ball_on_paddle that launches the ball straight up
ball_on_paddle_no_vx(g) ==
  LET f == [g EXCEPT !.ball_x =
                 U8(g.paddle_x + ((PADDLE_WIDTH - BALL_SIZE) \div 2))]
  IN IF Held(g.input_buffer, BTN_A) /\ ~Held(g.prev_input, BTN_A)
     THEN [f EXCEPT !.ball_state = 1,
                    !.ball_vx = 0,
                    !.ball_vy = S8(-BALL_SPEED_Y)]
     ELSE f

\* update_ball, ball_state == 0: follow the paddle, launch on a rising edge
ball_on_paddle(g) ==
  LET f == [g EXCEPT !.ball_x =
                 U8(g.paddle_x + ((PADDLE_WIDTH - BALL_SIZE) \div 2))]
  IN IF Held(g.input_buffer, BTN_A) /\ ~Held(g.prev_input, BTN_A)
     THEN [f EXCEPT !.ball_state = 1,
                    !.ball_vx = BALL_SPEED_X,
                    !.ball_vy = S8(-BALL_SPEED_Y)]
     ELSE f

\* update_ball: position += velocity, in 8 bits
ball_integrate(g) ==
  [g EXCEPT !.ball_x = U8(g.ball_x + g.ball_vx),
            !.ball_y = U8(g.ball_y + g.ball_vy)]

\* ball_walls_x without the right wall
ball_walls_x_left_only(g) ==
  IF g.ball_x = 0
  THEN [g EXCEPT !.ball_vx = S8(-g.ball_vx), !.ball_x = 1]
  ELSE g

\* ball_walls_x whose right wall puts the ball flush with the screen edge
ball_walls_x_flush_right(g) ==
  IF g.ball_x = 0
  THEN [g EXCEPT !.ball_vx = S8(-g.ball_vx), !.ball_x = 1]
  ELSE IF g.ball_x + BALL_SIZE >= SCREEN_WIDTH
       THEN [g EXCEPT !.ball_vx = S8(-g.ball_vx),
                      !.ball_x = SCREEN_WIDTH - BALL_SIZE]
       ELSE g

\* update_ball: left wall, else right wall
ball_walls_x(g) ==
  IF g.ball_x = 0
  THEN [g EXCEPT !.ball_vx = S8(-g.ball_vx), !.ball_x = 1]
  ELSE IF g.ball_x + BALL_SIZE >= SCREEN_WIDTH
       THEN [g EXCEPT !.ball_vx = S8(-g.ball_vx),
                      !.ball_x = SCREEN_WIDTH - BALL_SIZE - 1]
       ELSE g

\* update_ball: the test of the top-wall branch
ball_hits_top(g) == g.ball_y < TOP_BOUND

\* update_ball: the test of the ball-lost branch (taken when not at the top)
ball_hits_bottom(g) == g.ball_y >= SCREEN_HEIGHT - 2

\* update_ball: top wall reflection
ball_top(g) ==
  [g EXCEPT !.ball_vy = S8(-g.ball_vy), !.ball_y = TOP_BOUND]

\* update_ball: ball lost, back to the paddle
ball_lost(g) ==
  [g EXCEPT !.lives = U8(g.lives - 1),
            !.ball_state = 0,
            !.ball_x = (SCREEN_WIDTH - BALL_SIZE) \div 2,
            !.ball_y = PADDLE_Y - BALL_SIZE - 1,
            !.ball_vx = 0,
            !.ball_vy = 0]

\* ball_paddle that repositions the ball but keeps its vertical velocity
ball_paddle_no_bounce(g) ==
  IF /\ g.ball_y >= PADDLE_Y - BALL_SIZE
     /\ g.ball_y < PADDLE_Y + PADDLE_HEIGHT
     /\ g.ball_x + BALL_SIZE > g.paddle_x
     /\ g.paddle_x + PADDLE_WIDTH > g.ball_x
     /\ g.ball_y < PADDLE_Y
  THEN [g EXCEPT !.ball_y = PADDLE_Y - BALL_SIZE - 1,
                 !.ball_vx = IF g.ball_vx = 0 THEN BALL_SPEED_X
                             ELSE g.ball_vx]
  ELSE g

\* update_ball: paddle collision
ball_paddle(g) ==
  IF /\ g.ball_y >= PADDLE_Y - BALL_SIZE
     /\ g.ball_y < PADDLE_Y + PADDLE_HEIGHT
     /\ g.ball_x + BALL_SIZE > g.paddle_x
     /\ g.paddle_x + PADDLE_WIDTH > g.ball_x
     /\ g.ball_y < PADDLE_Y
  THEN [g EXCEPT !.ball_y = PADDLE_Y - BALL_SIZE - 1,
                 !.ball_vy = IF g.ball_vy > 0 THEN S8(-g.ball_vy)
                             ELSE g.ball_vy,
                 !.ball_vx = IF g.ball_vx = 0 THEN BALL_SPEED_X
                             ELSE g.ball_vx]
  ELSE g

\* update_ball: the pre-filter that skips the brick scan
brick_scan_skipped(g) ==
  \/ g.ball_y < BRICK_START_Y
  \/ g.ball_y >= BRICK_START_Y + (BRICK_ROWS * BRICK_SPACING_Y) + BRICK_HEIGHT

\* update_ball: brick idx fails neither the X nor the Y overlap test of the
\* scan loop
brick_overlaps(g, idx) ==
  /\ ~(\/ g.ball_x + BALL_SIZE <= g.bricks[idx].x
       \/ g.bricks[idx].x + BRICK_WIDTH <= g.ball_x)
  /\ ~(\/ g.ball_y + BALL_SIZE <= g.bricks[idx].y
       \/ g.bricks[idx].y + BRICK_HEIGHT <= g.ball_y)

\* brick_hit that forgets to decrement the brick count
brick_hit_no_count(g, idx) ==
  [g EXCEPT !.bricks[idx].active = 0,
            !.ball_vy = S8(-g.ball_vy),
            !.score = U16(g.score + 1)]

\* brick_hit that forgets to increment the score
brick_hit_no_score(g, idx) ==
  [g EXCEPT !.bricks[idx].active = 0,
            !.ball_vy = S8(-g.ball_vy),
            !.bricks_left = U8(g.bricks_left - 1)]

\* update_ball: "Collision detected!" -- the effects on brick idx, the ball
\* and the counters
brick_hit(g, idx) ==
  [g EXCEPT !.bricks[idx].active = 0,
            !.ball_vy = S8(-g.ball_vy),
            !.score = U16(g.score + 1),
            !.bricks_left = U8(g.bricks_left - 1)]

\* brick_scan without the break: the loop goes on after a hit
RECURSIVE brick_scan_no_break(_, _)
brick_scan_no_break(g, idx) ==
  IF idx >= TOTAL_BRICKS THEN g
  ELSE IF g.bricks[idx].active = 0 THEN brick_scan_no_break(g, idx + 1)
  ELSE IF ~brick_overlaps(g, idx) THEN brick_scan_no_break(g, idx + 1)
  ELSE brick_scan_no_break(brick_hit(g, idx), idx + 1)

\* brick_scan that walks the array from its last entry down
RECURSIVE brick_scan_from_end(_, _)
brick_scan_from_end(g, idx) ==
  IF idx >= TOTAL_BRICKS THEN g
  ELSE IF g.bricks[TOTAL_BRICKS - 1 - idx].active = 0
       THEN brick_scan_from_end(g, idx + 1)
  ELSE IF ~brick_overlaps(g, TOTAL_BRICKS - 1 - idx)
       THEN brick_scan_from_end(g, idx + 1)
  ELSE brick_hit(g, TOTAL_BRICKS - 1 - idx)

\* update_ball: the scan loop from index idx on; destroyed bricks and bricks
\* failing an overlap test are passed over (continue), the first other brick
\* is hit and the loop is left (break)
RECURSIVE brick_scan(_, _)
brick_scan(g, idx) ==
  IF idx >= TOTAL_BRICKS THEN g
  ELSE IF g.bricks[idx].active = 0 THEN brick_scan(g, idx + 1)
  ELSE IF ~brick_overlaps(g, idx) THEN brick_scan(g, idx + 1)
  ELSE brick_hit(g, idx)

\* update_ball: brick collision (pre-filter, then scan)
ball_bricks(g) ==
  IF brick_scan_skipped(g) THEN g ELSE brick_scan(g, 0)

\* update_ball, ball_state == 1, up to the top/bottom decision
ball_moved(g) == ball_walls_x(ball_integrate(g))

\* update_ball, ball_state == 1, at the point where the brick check starts
\* (only meaningful when the ball was not lost)
ball_before_bricks(g) ==
  LET m == ball_moved(g)
  IN ball_paddle(IF ball_hits_top(m) THEN ball_top(m) ELSE m)

\* update_ball
update_ball(g) ==
  IF g.ball_state = 0 THEN ball_on_paddle(g)
  ELSE LET m == ball_moved(g)
       IN IF ~ball_hits_top(m) /\ ball_hits_bottom(m)
          THEN ball_lost(m)
          ELSE ball_bricks(ball_before_bricks(g))

\* update_game
update_game(g) == update_ball(update_paddle(g))

\* ------------------------------------------------------------------------
\* The state machine
\* ------------------------------------------------------------------------
Install(g) ==
  /\ paddle_x' = g.paddle_x
  /\ ball_x' = g.ball_x
  /\ ball_y' = g.ball_y
  /\ ball_vx' = g.ball_vx
  /\ ball_vy' = g.ball_vy
  /\ ball_state' = g.ball_state
  /\ input_buffer' = g.input_buffer
  /\ prev_input' = g.prev_input
  /\ score' = g.score
  /\ lives' = g.lives
  /\ bricks_left' = g.bricks_left
  /\ bricks' = g.bricks

Init ==
  /\ paddle_x = init_game.paddle_x
  /\ ball_x = init_game.ball_x
  /\ ball_y = init_game.ball_y
  /\ ball_vx = init_game.ball_vx
  /\ ball_vy = init_game.ball_vy
  /\ ball_state = init_game.ball_state
  /\ input_buffer = init_game.input_buffer
  /\ prev_input = init_game.prev_input
  /\ score = init_game.score
  /\ lives = init_game.lives
  /\ bricks_left = init_game.bricks_left
  /\ bricks = init_game.bricks
  /\ changes = 0
  /\ hold_launches = 0
  /\ did_vsync = 0
  /\ frame_count = 0
  /\ dma_mirror = DMA_ENABLE + NOTILE + BLIT_IRQ
  /\ bank_mirror = VRAMBANK2 + CLIP_X + CLIP_Y
  /\ pc = "clear_screen"
  /\ draw_todo = 0
  /\ iter_calls = <<>>
  /\ nmi_seen = FALSE

\* one pass of the main loop's simulation: read_input(); update_game();
\* pad is the GAMEPAD1 value of this frame
Frame(pad) ==
  LET g == update_game(read_input(G, pad))
  IN /\ Install(g)
     /\ hold_launches' =
          IF ~Held(g.input_buffer, BTN_A) THEN 0
          ELSE (IF Held(input_buffer, BTN_A) THEN hold_launches ELSE 0)
               + (IF ball_state = 0 /\ g.ball_state = 1 THEN 1 ELSE 0)

\* button combinations the player produces
Buttons == {0, BTN_RIGHT, BTN_LEFT, BTN_A, BTN_RIGHT + BTN_LEFT}

\* the corresponding GAMEPAD1 register values (active-low)
Pads == {255 - b : b \in Buttons}

\* number of balls lost so far
BallsLost == U8(INIT_LIVES - lives)

\* a frame of free play, within the bounds
PlayFrame ==
  /\ score < MaxScore
  /\ BallsLost < MaxLost
  /\ \E pad \in Pads :
       /\ (255 - pad # input_buffer) => changes < MaxInputChanges
       /\ Frame(pad)
       /\ changes' = IF 255 - pad = input_buffer THEN changes
                     ELSE changes + 1
  /\ UNCHANGED loop_vars

Next == PlayFrame

Spec == Init /\ [][Next]_vars

\* ------------------------------------------------------------------------
\* The launch scenario: the paddle is never moved, the launch button is
\* pressed and released at will, and play goes on until the top-left brick
\* (grid index 0) is destroyed.
\* ------------------------------------------------------------------------
ScenarioPads == {255, 255 - BTN_A}

ScenarioFrame ==
  /\ bricks[0].active = 1
  /\ \E pad \in ScenarioPads : Frame(pad)
  /\ UNCHANGED changes
  /\ UNCHANGED loop_vars

ScenarioNext == ScenarioFrame

SpecScenario == Init /\ [][ScenarioNext]_vars

\* ------------------------------------------------------------------------
\* A long rally: the player steers the paddle under the Active ball, so no
\* ball is lost and the bricks are cleared one after the other; the launch
\* button is pressed and released at will.
\* ------------------------------------------------------------------------
ChaseDir ==
  IF ball_state = 1 /\ ball_x > paddle_x + ((PADDLE_WIDTH - BALL_SIZE) \div 2)
  THEN BTN_RIGHT
  ELSE IF ball_state = 1
          /\ ball_x < paddle_x + ((PADDLE_WIDTH - BALL_SIZE) \div 2)
  THEN BTN_LEFT
  ELSE 0

ChasePads == {255 - (ChaseDir + a) : a \in {0, BTN_A}}

ChaseFrame ==
  /\ \E pad \in ChasePads : Frame(pad)
  /\ UNCHANGED changes
  /\ UNCHANGED loop_vars

ChaseNext == ChaseFrame

SpecChase == Init /\ [][ChaseNext]_vars

\* ------------------------------------------------------------------------
\* update_paddle on arbitrary button masks: update_paddle is called again
\* and again, each time with input_buffer holding any 8-bit sample.
\* ------------------------------------------------------------------------
Masks == 0..255

PaddleCall ==
  /\ \E mask \in Masks :
       Install(update_paddle([G EXCEPT !.input_buffer = mask]))
  /\ UNCHANGED <<changes, hold_launches>>
  /\ UNCHANGED loop_vars

PaddleNext == PaddleCall

SpecPaddle == Init /\ [][PaddleNext]_vars

\* ------------------------------------------------------------------------
\* The frame loop of main(), statement by statement, with the interrupts
\* ------------------------------------------------------------------------
\* x ^ bit for a single-bit mask
ToggleBit(x, bit) == IF Held(x, bit) THEN x - bit ELSE x + bit

\* main with swap_buffers() called before wait_vsync()
main_next_swap_first(p) ==
  CASE p = "clear_screen" -> "read_input"
    [] p = "read_input" -> "update_game"
    [] p = "update_game" -> "draw_game"
    [] p = "draw_game" -> "swap_buffers"
    [] p = "swap_buffers" -> "wait_vsync"
    [] p = "wait_vsync" -> "frame_count"
    [] p = "frame_count" -> "clear_screen"

\* main: the statement that follows statement p of the loop body
main_next(p) ==
  CASE p = "clear_screen" -> "read_input"
    [] p = "read_input" -> "update_game"
    [] p = "update_game" -> "draw_game"
    [] p = "draw_game" -> "wait_vsync"
    [] p = "wait_vsync" -> "swap_buffers"
    [] p = "swap_buffers" -> "frame_count"
    [] p = "frame_count" -> "clear_screen"

\* draw_hud: the number of life indicators drawn, one draw_rect per life
draw_hud_rects(g) == g.lives

\* draw_game: the number of draw_rect calls of draw_bricks, draw_paddle,
\* draw_ball and draw_hud
draw_game_rects(g) ==
  Cardinality({i \in 0..(TOTAL_BRICKS - 1) : g.bricks[i].active # 0})
    + 1 + 1 + draw_hud_rects(g)

\* the player of the frame loop: taps the launch button every other frame
\* until MaxLoopLost balls are lost and never touches the other buttons
LoopPad ==
  IF U8(INIT_LIVES - lives) < MaxLoopLost /\ ~Held(input_buffer, BTN_A)
  THEN 255 - BTN_A
  ELSE 255

\* main()'s position once the call named c has returned
Returned(c) ==
  /\ pc' = IF main_next(c) = "update_game" THEN "update_paddle"
           ELSE main_next(c)
  /\ iter_calls' = Append(iter_calls, c)

\* clear_screen: draw_rect up to its wait_blit
ClearScreen ==
  /\ pc = "clear_screen"
  /\ pc' = "clear_wai"
  /\ UNCHANGED <<did_vsync, bank_mirror, dma_mirror, frame_count,
                 draw_todo, iter_calls, nmi_seen>>
  /\ UNCHANGED <<game_vars, changes, hold_launches>>

\* the effect of an interrupt on a CPU stopped in wait_blit's wai: the
\* draw_rect call returns
Wake ==
  IF pc = "clear_wai"
  THEN /\ Returned("clear_screen")
       /\ UNCHANGED draw_todo
  ELSE IF pc = "draw_wai"
  THEN /\ draw_todo' = draw_todo - 1
       /\ IF draw_todo = 1
          THEN Returned("draw_game")
          ELSE pc' = "draw_game" /\ UNCHANGED iter_calls
  ELSE UNCHANGED <<pc, draw_todo, iter_calls>>

\* nmi_handler that does not set the flag
NmiHandler_no_flag ==
  /\ nmi_seen' = TRUE
  /\ Wake
  /\ UNCHANGED <<did_vsync, bank_mirror, dma_mirror, frame_count>>
  /\ UNCHANGED <<game_vars, changes, hold_launches>>

\* nmi_handler, run at any point of the loop
NmiHandler ==
  /\ did_vsync' = 1
  /\ nmi_seen' = TRUE
  /\ Wake
  /\ UNCHANGED <<bank_mirror, dma_mirror, frame_count>>
  /\ UNCHANGED <<game_vars, changes, hold_launches>>

\* irq_handler, run when the blit that the CPU waits for completes
IrqHandler ==
  /\ pc \in {"clear_wai", "draw_wai"}
  /\ Wake
  /\ UNCHANGED <<did_vsync, nmi_seen, bank_mirror, dma_mirror, frame_count>>
  /\ UNCHANGED <<game_vars, changes, hold_launches>>

\* main: read_input()
ReadInput ==
  /\ pc = "read_input"
  /\ Install(read_input(G, LoopPad))
  /\ Returned("read_input")
  /\ UNCHANGED <<did_vsync, bank_mirror, dma_mirror, frame_count,
                 draw_todo, nmi_seen, changes, hold_launches>>

\* update_game: update_paddle()
UpdatePaddle ==
  /\ pc = "update_paddle"
  /\ Install(update_paddle(G))
  /\ pc' = "update_ball"
  /\ iter_calls' = Append(iter_calls, "update_paddle")
  /\ UNCHANGED <<did_vsync, bank_mirror, dma_mirror, frame_count,
                 draw_todo, nmi_seen, changes, hold_launches>>

\* update_game: update_ball(), then main goes on to draw_game()
UpdateBall ==
  /\ pc = "update_ball"
  /\ \E g \in {update_ball(G)} :
       /\ Install(g)
       /\ draw_todo' = draw_game_rects(g)
  /\ pc' = main_next("update_game")
  /\ iter_calls' = Append(iter_calls, "update_ball")
  /\ UNCHANGED <<did_vsync, bank_mirror, dma_mirror, frame_count,
                 nmi_seen, changes, hold_launches>>

\* draw_game: the next draw_rect up to its wait_blit
DrawRect ==
  /\ pc = "draw_game"
  /\ draw_todo > 0
  /\ pc' = "draw_wai"
  /\ UNCHANGED <<did_vsync, bank_mirror, dma_mirror, frame_count,
                 draw_todo, iter_calls, nmi_seen>>
  /\ UNCHANGED <<game_vars, changes, hold_launches>>

\* wait_vsync: the loop while (did_vsync == 0) is left
WaitVsync ==
  /\ pc = "wait_vsync"
  /\ did_vsync # 0
  /\ pc' = "clear_vsync"
  /\ UNCHANGED <<did_vsync, bank_mirror, dma_mirror, frame_count,
                 draw_todo, iter_calls, nmi_seen>>
  /\ UNCHANGED <<game_vars, changes, hold_launches>>

\* wait_vsync that returns without clearing the flag
ClearVsync_flag_kept ==
  /\ pc = "clear_vsync"
  /\ nmi_seen' = FALSE
  /\ Returned("wait_vsync")
  /\ UNCHANGED <<did_vsync, bank_mirror, dma_mirror, frame_count, draw_todo>>
  /\ UNCHANGED <<game_vars, changes, hold_launches>>

\* wait_vsync: did_vsync = 0, and the call returns
ClearVsync ==
  /\ pc = "clear_vsync"
  /\ did_vsync' = 0
  /\ nmi_seen' = FALSE
  /\ Returned("wait_vsync")
  /\ UNCHANGED <<bank_mirror, dma_mirror, frame_count, draw_todo>>
  /\ UNCHANGED <<game_vars, changes, hold_launches>>

\* main: swap_buffers()
SwapBuffers ==
  /\ pc = "swap_buffers"
  /\ bank_mirror' = ToggleBit(bank_mirror, VRAMBANK2)
  /\ dma_mirror' = ToggleBit(dma_mirror, VID_OUT_PAGE2)
  /\ Returned("swap_buffers")
  /\ UNCHANGED <<did_vsync, frame_count, draw_todo, nmi_seen>>
  /\ UNCHANGED <<game_vars, changes, hold_launches>>

\* main: frame_count++, and the loop starts over
CountFrame ==
  /\ pc = "frame_count"
  /\ frame_count' = U8(frame_count + 1)
  /\ pc' = main_next("frame_count")
  /\ iter_calls' = <<>>
  /\ UNCHANGED <<did_vsync, bank_mirror, dma_mirror, draw_todo, nmi_seen>>
  /\ UNCHANGED <<game_vars, changes, hold_launches>>

\* the steps of main()
MainStep ==
  \/ ClearScreen
  \/ ReadInput
  \/ UpdatePaddle
  \/ UpdateBall
  \/ DrawRect
  \/ WaitVsync
  \/ ClearVsync
  \/ SwapBuffers
  \/ CountFrame

LoopNext ==
  \/ ClearScreen
  \/ ReadInput
  \/ UpdatePaddle
  \/ UpdateBall
  \/ DrawRect
  \/ WaitVsync
  \/ ClearVsync
  \/ SwapBuffers
  \/ CountFrame
  \/ NmiHandler
  \/ IrqHandler

SpecLoop == Init /\ [][LoopNext]_vars

\* the CPU keeps executing main() and the vsync interrupt keeps firing
SpecLoopFair ==
  Init /\ [][LoopNext]_vars /\ WF_vars(MainStep) /\ WF_vars(NmiHandler)

\* ------------------------------------------------------------------------
\* Vocabulary of the properties
\* ------------------------------------------------------------------------
\* axis-aligned rectangles overlap iff each one's start is strictly less
\* than the other's end on both axes
RectsOverlap(ax, ay, aw, ah, bx, by, bw, bh) ==
  /\ ax < bx + bw
  /\ bx < ax + aw
  /\ ay < by + bh
  /\ by < ay + ah

\* the active bricks whose rectangle overlaps the ball's rectangle in g
Overlapped(g) ==
  UNION {{i \in 0..(TOTAL_BRICKS - 1) :
            /\ h.bricks[i].active = 1
            /\ RectsOverlap(h.ball_x, h.ball_y, BALL_SIZE, BALL_SIZE,
                            h.bricks[i].x, h.bricks[i].y,
                            BRICK_WIDTH, BRICK_HEIGHT)} : h \in {g}}

MinOf(S) == CHOOSE m \in S : \A n \in S : m <= n

ActiveBricks == {i \in 0..(TOTAL_BRICKS - 1) : bricks[i].active = 1}

\* the bricks whose active flag differs between the two states of a step
Flipped == {i \in 0..(TOTAL_BRICKS - 1) : bricks'[i].active # bricks[i].active}

\* the globals of a step's frame after read_input and update_paddle
AfterPaddle == update_paddle(read_input(G, 255 - input_buffer'))

\* the ball of a step's frame at the point where the brick check starts
AtScan == ball_before_bricks(AfterPaddle)

\* the step's frame loses the ball: it is Active and its integrated y has
\* reached the bottom threshold
LosesBall ==
  /\ ball_state = 1
  /\ U8(ball_y + ball_vy) >= SCREEN_HEIGHT - 2

\* the step's frame gets as far as the brick scan
ScanRuns ==
  /\ ball_state = 1
  /\ ~LosesBall
  /\ ~brick_scan_skipped(AtScan)

\* the step's frame detects a brick collision
CollisionDetected == ScanRuns /\ Overlapped(AtScan) # {}

\* the step's frame launches the ball
Launches == ball_state = 0 /\ ball_state' = 1

\* ------------------------------------------------------------------------
\* C1: in every reachable state 0 <= paddle_x <= SCREEN_WIDTH - PADDLE_WIDTH.
\* ------------------------------------------------------------------------
C1_PaddleInRange ==
  /\ paddle_x \in Nat
  /\ paddle_x <= SCREEN_WIDTH - PADDLE_WIDTH

\* RIGHT held for two samples with the paddle at the right stop: a rightward
\* move has been refused
C1_Witness ==
  /\ Held(input_buffer, BTN_RIGHT)
  /\ Held(prev_input, BTN_RIGHT)
  /\ paddle_x + PADDLE_SPEED >= SCREEN_WIDTH - PADDLE_WIDTH

\* ------------------------------------------------------------------------
\* C2 (as claimed): a frame with RIGHT held and LEFT not held moves the
\* paddle to min(paddle_x + PADDLE_SPEED, SCREEN_WIDTH - PADDLE_WIDTH), so
\* that N such frames from x0 give min(x0 + N*PADDLE_SPEED, 104).
\* ------------------------------------------------------------------------
C2_RightHeldReaches104 ==
  [][(Held(input_buffer', BTN_RIGHT) /\ ~Held(input_buffer', BTN_LEFT))
       => paddle_x' = IF paddle_x + PADDLE_SPEED < SCREEN_WIDTH - PADDLE_WIDTH
                      THEN paddle_x + PADDLE_SPEED
                      ELSE SCREEN_WIDTH - PADDLE_WIDTH]_vars

\* ------------------------------------------------------------------------
\* C3: the ball goes from OnPaddle to Active in a frame iff it is OnPaddle
\* and the launch button is pressed in this frame's sample and was not
\* pressed in the previous frame's sample; the launch velocity is (+2, -2);
\* one continuous hold of the button launches at most once, also across a
\* ball loss.
\* ------------------------------------------------------------------------
C3_LaunchOnRisingEdge ==
  [][/\ Launches <=> (/\ ball_state = 0
                      /\ Held(input_buffer', BTN_A)
                      /\ ~Held(input_buffer, BTN_A))
     /\ Launches => (ball_vx' = BALL_SPEED_X /\ ball_vy' = -BALL_SPEED_Y)
     /\ hold_launches' <= 1]_vars

\* the button has been held since the launch, the ball has been lost and a
\* further frame has put the ball back on the (moved) paddle
C3_Witness ==
  /\ ball_state = 0
  /\ lives < INIT_LIVES
  /\ hold_launches = 1
  /\ Held(input_buffer, BTN_A)
  /\ Held(prev_input, BTN_A)
  /\ paddle_x # init_game.paddle_x
  /\ ball_x = paddle_x + ((PADDLE_WIDTH - BALL_SIZE) \div 2)

\* ------------------------------------------------------------------------
\* C4: in every frame at most one brick changes its active flag; a frame
\* that detects a brick collision flips exactly one brick from active to
\* inactive, adds 1 to score, takes 1 from bricks_left and negates ball_vy;
\* any other frame changes no brick flag, score or bricks_left.
\* ------------------------------------------------------------------------
C4_OneBrickPerFrame ==
  [][/\ Cardinality(Flipped) <= 1
     /\ IF CollisionDetected
        THEN /\ \E i \in 0..(TOTAL_BRICKS - 1) :
                  /\ Flipped = {i}
                  /\ bricks[i].active = 1
                  /\ bricks'[i].active = 0
             /\ score' = score + 1
             /\ bricks_left' = bricks_left - 1
             /\ ball_vy' = -(AtScan.ball_vy)
        ELSE /\ bricks' = bricks
             /\ score' = score
             /\ bricks_left' = bricks_left]_vars

\* the frame of the first brick collision has ended
C4_Witness ==
  /\ ball_state = 1
  /\ score = 1
  /\ Cardinality(ActiveBricks) = TOTAL_BRICKS - 1
  /\ ball_vy > 0

\* ------------------------------------------------------------------------
\* C5: when the ball overlaps two or more active bricks at scan time, the
\* brick destroyed in that frame is the overlapping brick of smallest grid
\* index, and every other overlapping brick stays active in that frame.
\* ------------------------------------------------------------------------
C5_FirstInGridOrder ==
  [][(ScanRuns /\ Cardinality(Overlapped(AtScan)) >= 2)
       => /\ bricks'[MinOf(Overlapped(AtScan))].active = 0
          /\ \A j \in Overlapped(AtScan) \ {MinOf(Overlapped(AtScan))} :
               bricks'[j].active = 1]_vars

\* after a frame: the ball still overlaps an active brick, and a destroyed
\* brick of smaller index that it overlaps as well
C5_Witness ==
  /\ ball_state = 1
  /\ \E i, j \in 0..(TOTAL_BRICKS - 1) :
       /\ i < j
       /\ bricks[i].active = 0
       /\ bricks[j].active = 1
       /\ RectsOverlap(ball_x, ball_y, BALL_SIZE, BALL_SIZE,
                       bricks[i].x, bricks[i].y, BRICK_WIDTH, BRICK_HEIGHT)
       /\ RectsOverlap(ball_x, ball_y, BALL_SIZE, BALL_SIZE,
                       bricks[j].x, bricks[j].y, BRICK_WIDTH, BRICK_HEIGHT)

\* ------------------------------------------------------------------------
\* C6 (as claimed): a frame in which the Active ball's integrated y reaches
\* the bottom threshold decreases lives by exactly 1, puts the ball OnPaddle
\* with velocity (0, 0) at the reset position (62, 111), and leaves score,
\* bricks_left and every brick flag unchanged.
\* ------------------------------------------------------------------------
C6_BallLost ==
  [][LosesBall
       => /\ lives' = lives - 1
          /\ ball_state' = 0
          /\ ball_vx' = 0
          /\ ball_vy' = 0
          /\ ball_x' = (SCREEN_WIDTH - BALL_SIZE) \div 2
          /\ ball_y' = PADDLE_Y - BALL_SIZE - 1
          /\ score' = score
          /\ bricks_left' = bricks_left
          /\ bricks' = bricks]_vars

C8_BricksLeftCounts == bricks_left = Cardinality(ActiveBricks)

\* two bricks have been destroyed
C8_Witness ==
  /\ score = 2
  /\ Cardinality(ActiveBricks) = TOTAL_BRICKS - 2

\* ------------------------------------------------------------------------
\* C9 (as claimed): at the end of update_game, an OnPaddle ball is at
\* (paddle_x + 10, 111) with velocity (0, 0), the frame of a ball loss
\* included.
\* ------------------------------------------------------------------------
C9_OnPaddleFollows ==
  ball_state = 0
    => /\ ball_x = paddle_x + ((PADDLE_WIDTH - BALL_SIZE) \div 2)
       /\ ball_y = PADDLE_Y - BALL_SIZE - 1
       /\ ball_vx = 0
       /\ ball_vy = 0

NoDirection(mask) == ~Held(mask, BTN_RIGHT) /\ ~Held(mask, BTN_LEFT)

C11_NoDirectionNoMove ==
  [][NoDirection(input_buffer')
       => /\ paddle_x' = paddle_x
          /\ update_paddle(G').paddle_x = paddle_x]_vars

\* the paddle has been moved away from the centre and update_paddle has
\* just been called with every button but RIGHT and LEFT down
C11_Witness ==
  /\ paddle_x = 20
  /\ input_buffer = 255 - BTN_RIGHT - BTN_LEFT

\* ------------------------------------------------------------------------
\* C17: in a frame with RIGHT and LEFT both held, paddle_x is unchanged when
\* paddle_x + PADDLE_SPEED < SCREEN_WIDTH - PADDLE_WIDTH, decreases by
\* PADDLE_SPEED when the rightward move is rejected at the right bound, and
\* never increases.
\* ------------------------------------------------------------------------
BothHeld(mask) == Held(mask, BTN_RIGHT) /\ Held(mask, BTN_LEFT)

C17_BothHeld ==
  [][BothHeld(input_buffer')
       => /\ paddle_x + PADDLE_SPEED < SCREEN_WIDTH - PADDLE_WIDTH
               => paddle_x' = paddle_x
          /\ paddle_x + PADDLE_SPEED >= SCREEN_WIDTH - PADDLE_WIDTH
               => paddle_x' = paddle_x - PADDLE_SPEED
          /\ paddle_x' <= paddle_x]_vars

\* RIGHT was held up to the right stop and then LEFT was pressed as well:
\* the frame with both held has moved the paddle back by PADDLE_SPEED
C17_Witness ==
  /\ BothHeld(input_buffer)
  /\ prev_input = BTN_RIGHT
  /\ paddle_x = SCREEN_WIDTH - PADDLE_WIDTH - 2 * PADDLE_SPEED

\* ------------------------------------------------------------------------
\* C16: whenever the ball is Active, ball_x + ball_vx and ball_y + ball_vy,
\* computed as unbounded integers, lie in 0..255, so the 8-bit integration
\* never wraps; a ball moving left that reaches the left edge lands exactly
\* on x = 0 and takes the left-wall branch (vx negated, x set to 1).
\* ------------------------------------------------------------------------
NoWrap(x, y, vx, vy) ==
  /\ x + vx \in 0..255
  /\ y + vy \in 0..255

\* the ball of a step's frame after the wall handling in x
AfterWallsX == ball_walls_x(ball_integrate(AfterPaddle))

C16_IntegrationNoWrap ==
  [][/\ ball_state = 1 => NoWrap(ball_x, ball_y, ball_vx, ball_vy)
     /\ ball_state' = 1 => NoWrap(ball_x', ball_y', ball_vx', ball_vy')
     /\ (ball_state = 1 /\ ball_vx < 0 /\ ball_x + ball_vx <= 0)
          => /\ ball_x + ball_vx = 0
             /\ AfterWallsX.ball_x = 1
             /\ AfterWallsX.ball_vx = -ball_vx
             /\ ~LosesBall => (ball_x' = 1 /\ ball_vx' = -ball_vx)]_vars

\* the Active ball has just bounced off the left wall
C16_Witness ==
  /\ ball_state = 1
  /\ ball_x = 1
  /\ ball_vx = BALL_SPEED_X

\* ------------------------------------------------------------------------
\* C18: whenever the ball is Active, ball_vx is +2 or -2 and ball_vy is +2
\* or -2; the horizontal velocity of an Active ball is never zero.
\* ------------------------------------------------------------------------
C18_ActiveVelocity ==
  ball_state = 1
    => /\ ball_vx \in {BALL_SPEED_X, -BALL_SPEED_X}
       /\ ball_vy \in {BALL_SPEED_Y, -BALL_SPEED_Y}
       /\ ball_vx # 0

\* the Active ball has been reflected in both axes, a brick hit included
C18_Witness ==
  /\ ball_state = 1
  /\ ball_vx = -BALL_SPEED_X
  /\ ball_vy = BALL_SPEED_Y
  /\ score > 0

\* ------------------------------------------------------------------------
\* C14: in every frame in which the Active ball, after integration and wall
\* handling and without being lost, has y in [PADDLE_Y - BALL_SIZE,
\* PADDLE_Y + PADDLE_HEIGHT) and an x-extent overlapping the paddle's, the
\* frame ends with ball_y = PADDLE_Y - BALL_SIZE - 1 and ball_vy < 0.
\* ------------------------------------------------------------------------
\* the ball of a step's frame at the point where the paddle check starts
AtPaddle == ball_moved(AfterPaddle)

\* the step's frame brings the Active ball, not lost, to a y in lo..(hi-1)
\* with its x-extent overlapping the paddle's
MeetsPaddle(lo, hi) ==
  /\ ball_state = 1
  /\ ~LosesBall
  /\ AtPaddle.ball_y >= lo
  /\ AtPaddle.ball_y < hi
  /\ AtPaddle.ball_x + BALL_SIZE > AtPaddle.paddle_x
  /\ AtPaddle.paddle_x + PADDLE_WIDTH > AtPaddle.ball_x

HitResolved ==
  /\ ball_y' = PADDLE_Y - BALL_SIZE - 1
  /\ ball_vy' < 0

C14_PaddleHitInBand ==
  [][MeetsPaddle(PADDLE_Y - BALL_SIZE, PADDLE_Y + PADDLE_HEIGHT)
       => HitResolved]_vars

\* C14 as the code has it: the hit is resolved when the ball's y is in
\* [PADDLE_Y - BALL_SIZE, PADDLE_Y); with y in [PADDLE_Y, PADDLE_Y +
\* PADDLE_HEIGHT) the ball passes through the paddle: the frame leaves its
\* position and velocity as they were after integration and wall handling.
C14_PaddleHitAboveTop ==
  [][/\ MeetsPaddle(PADDLE_Y - BALL_SIZE, PADDLE_Y) => HitResolved
     /\ MeetsPaddle(PADDLE_Y, PADDLE_Y + PADDLE_HEIGHT)
          => /\ ball_state' = 1
             /\ ball_x' = AtPaddle.ball_x
             /\ ball_y' = AtPaddle.ball_y
             /\ ball_vx' = AtPaddle.ball_vx
             /\ ball_vy' = AtPaddle.ball_vy]_vars

\* a ball coming down leftwards has just been bounced by the paddle (a
\* launch leaves the ball at the same height but moving right)
C14_Witness ==
  /\ ball_state = 1
  /\ ball_y = PADDLE_Y - BALL_SIZE - 1
  /\ ball_vy = -BALL_SPEED_Y
  /\ ball_vx = -BALL_SPEED_X

\* ------------------------------------------------------------------------
\* C15: in every frame in which the brick scan is skipped because ball_y <
\* BRICK_START_Y or ball_y >= BRICK_START_Y + BRICK_ROWS * BRICK_SPACING_Y +
\* BRICK_HEIGHT, the ball's rectangle overlaps no active brick, so the scan
\* without the pre-filter gives the same result.
\* ------------------------------------------------------------------------
\* the step's frame reaches the brick check and its pre-filter skips the scan
ScanSkipped ==
  /\ ball_state = 1
  /\ ~LosesBall
  /\ brick_scan_skipped(AtScan)

\* (a frame that skips the scan ends with the ball and the bricks as they
\* are at the pre-filter, so the overlap is read off the frame's end state)
C15_PrefilterIsOptimisation ==
  [][ScanSkipped => (G' = AtScan /\ Overlapped(G') = {})]_vars

\* ------------------------------------------------------------------------
\* C19: in every frame lives is unchanged or one less than before, so lives
\* <= INIT_LIVES in every reachable state, also after a ball is lost while
\* lives is 0, and the HUD never draws more than INIT_LIVES life indicators.
\* ------------------------------------------------------------------------
C19_LivesNeverIncrease ==
  [][/\ lives' = lives \/ lives' = lives - 1
     /\ lives' <= INIT_LIVES
     /\ draw_hud_rects(G') <= INIT_LIVES]_vars

\* ------------------------------------------------------------------------
\* C12: every iteration of the frame loop performs, in this order, the input
\* sample, update_paddle, update_ball, the draw-command emission, the wait
\* for vsync and the buffer swap; the wait and the swap happen exactly once
\* per iteration, the wait after all simulation and drawing of the iteration
\* and before its swap.
\* ------------------------------------------------------------------------
IterationOrder ==
  <<"read_input", "update_paddle", "update_ball", "draw_game",
    "wait_vsync", "swap_buffers">>

\* the calls the claim lists (clear_screen opens the iteration)
IsListed(c) == c # "clear_screen"

IsPrefix(s, t) == Len(s) <= Len(t) /\ s = SubSeq(t, 1, Len(s))

\* the listed calls that have returned in the current iteration
Done == SelectSeq(iter_calls, IsListed)

C12_IterationOrder ==
  /\ IsPrefix(Done, IterationOrder)
  /\ pc \in {"wait_vsync", "clear_vsync"}
       => /\ Done = SubSeq(IterationOrder, 1, 4)
          /\ draw_todo = 0
  /\ pc = "swap_buffers" => Done = SubSeq(IterationOrder, 1, 5)
  /\ pc = "frame_count" => Done = IterationOrder
  /\ pc = "clear_screen" => Done = <<>>

\* the second iteration, with the ball in flight, has done all its calls
C12_Witness ==
  /\ pc = "frame_count"
  /\ frame_count = 1
  /\ ball_state = 1
  /\ Done = IterationOrder

\* ------------------------------------------------------------------------
\* C13: under every interleaving of nmi_handler with the main loop, between
\* any two consecutive returns of wait_vsync (hence between two consecutive
\* buffer swaps) nmi_handler has run at least once.
\* ------------------------------------------------------------------------
WaitVsyncReturns == pc = "clear_vsync" /\ pc' # "clear_vsync"

C13_OneVsyncOneRelease == [][WaitVsyncReturns => nmi_seen]_vars

\* wait_vsync has returned for the second time and no vsync has come since
C13_Witness ==
  /\ pc = "swap_buffers"
  /\ frame_count = 1
  /\ did_vsync = 0
  /\ ~nmi_seen

====
